---- MODULE Spec2Model ----
(***************************************************************************)
(* sample_board_definitions.h: an EtherCAT address map written as C        *)
(* preprocessor macros.  A macro is a replacement list of tokens; a use of *)
(* a macro is expanded textually and the resulting expression is evaluated *)
(* as a C integer constant expression (operator precedence, operands of    *)
(* type int).  The header is a template: the integrator edits the base     *)
(* constants and derives further boards with the same expression forms.    *)
(***************************************************************************)
EXTENDS Integers, Sequences, FiniteSets, TLC

VARIABLES
    base,    \* the header's base constants: macro name -> replacement list
    used,    \* the last macro use compiled against the current header
    master,  \* derivation of a new board: master index written in MAk_x
    btype,   \* derivation of a new board: board type written in NID_x
    inst,    \* derivation of a new board: instance number written in NID_x
    nid,     \* the value of the derived NID_x
    addr,    \* the value of the derived MAk_x
    pc       \* position of the derivation

vars == <<base, used, master, btype, inst, nid, addr, pc>>

(***************************************************************************)
(* Tokens of a replacement list.                                           *)
(***************************************************************************)
N(v) == [k |-> "num", s |-> "", v |-> v]
I(s) == [k |-> "id", s |-> s, v |-> 0]
P(s) == [k |-> "p", s |-> s, v |-> 0]

(***************************************************************************)
(* The replacement lists of the header, token for token.                   *)
(***************************************************************************)
ECAT_MASTER0 == <<N(\H0)>>
ECAT_MASTER1 == <<N(\H1)>>
ECAT_MASTER2 == <<N(\H2)>>
ECAT_MASTER3 == <<N(\H3)>>

BDTYPE_ECAT_CMN == <<N(\H01)>>
BDTYPE_ECAT_IO == <<N(\H02)>>
BDTYPE_ECAT_MOT == <<N(\H03)>>
BDTYPE_ECAT_SEN == <<N(\H04)>>

NID_SAFETY ==
    <<P("("), N(\H7F), P("|"), I("BDTYPE_ECAT_CMN"), P("<<"), N(8), P(")")>>
NID_PROT04_00_S ==
    <<P("("), N(\H04), P("|"), I("BDTYPE_ECAT_IO"), P("<<"), N(8), P(")")>>
NID_PROT04_01_S ==
    <<P("("), N(\H05), P("|"), I("BDTYPE_ECAT_IO"), P("<<"), N(8), P(")")>>
NID_PROT04_02_S ==
    <<P("("), N(\H06), P("|"), I("BDTYPE_ECAT_IO"), P("<<"), N(8), P(")")>>
NID_MOTOR_00 ==
    <<P("("), N(\H10), P("|"), I("BDTYPE_ECAT_MOT"), P("<<"), N(8), P(")")>>
NID_MOTOR_01 ==
    <<P("("), N(\H11), P("|"), I("BDTYPE_ECAT_MOT"), P("<<"), N(8), P(")")>>
NID_SENSOR_00 ==
    <<P("("), N(\H20), P("|"), I("BDTYPE_ECAT_SEN"), P("<<"), N(8), P(")")>>

MA0_SAFETY ==
    <<P("("), P("("), I("ECAT_MASTER0"), P("<<"), N(30), P(")"), P("|"),
      P("("), I("NID_SAFETY"), P("*"), N(\H10000), P(")"), P(")")>>
MA0_PROT04_00_S ==
    <<P("("), P("("), I("ECAT_MASTER0"), P("<<"), N(30), P(")"), P("|"),
      P("("), I("NID_PROT04_00_S"), P("*"), N(\H10000), P(")"), P(")")>>
MA0_PROT04_01_S ==
    <<P("("), P("("), I("ECAT_MASTER0"), P("<<"), N(30), P(")"), P("|"),
      P("("), I("NID_PROT04_01_S"), P("*"), N(\H10000), P(")"), P(")")>>
MA0_PROT04_02_S ==
    <<P("("), P("("), I("ECAT_MASTER0"), P("<<"), N(30), P(")"), P("|"),
      P("("), I("NID_PROT04_02_S"), P("*"), N(\H10000), P(")"), P(")")>>
MA0_MOTOR_00 ==
    <<P("("), P("("), I("ECAT_MASTER0"), P("<<"), N(30), P(")"), P("|"),
      P("("), I("NID_MOTOR_00"), P("*"), N(\H10000), P(")"), P(")")>>
MA0_MOTOR_01 ==
    <<P("("), P("("), I("ECAT_MASTER0"), P("<<"), N(30), P(")"), P("|"),
      P("("), I("NID_MOTOR_01"), P("*"), N(\H10000), P(")"), P(")")>>
MA0_SENSOR_00 ==
    <<P("("), P("("), I("ECAT_MASTER0"), P("<<"), N(30), P(")"), P("|"),
      P("("), I("NID_SENSOR_00"), P("*"), N(\H10000), P(")"), P(")")>>

\* Faulty variant: the master shifted by 31 instead of 30.
MA1_SAFETY_Shift31 ==
    <<P("("), P("("), I("ECAT_MASTER1"), P("<<"), N(31), P(")"), P("|"),
      P("("), I("NID_SAFETY"), P("*"), N(\H10000), P(")"), P(")")>>
MA1_SAFETY ==
    <<P("("), P("("), I("ECAT_MASTER1"), P("<<"), N(30), P(")"), P("|"),
      P("("), I("NID_SAFETY"), P("*"), N(\H10000), P(")"), P(")")>>
MA1_PROT04_00_S ==
    <<P("("), P("("), I("ECAT_MASTER1"), P("<<"), N(30), P(")"), P("|"),
      P("("), I("NID_PROT04_00_S"), P("*"), N(\H10000), P(")"), P(")")>>
MA1_MOTOR_00 ==
    <<P("("), P("("), I("ECAT_MASTER1"), P("<<"), N(30), P(")"), P("|"),
      P("("), I("NID_MOTOR_00"), P("*"), N(\H10000), P(")"), P(")")>>

MA0_BROADCAST == <<N(\H00000000)>>
\* Faulty variant: a digit dropped from the literal.
MA1_BROADCAST_Typo == <<N(\H4000000)>>
MA1_BROADCAST == <<N(\H40000000)>>

\* The header as written: every #define of the file.
SampleHeader ==
    [ECAT_MASTER0 |-> ECAT_MASTER0, ECAT_MASTER1 |-> ECAT_MASTER1,
     ECAT_MASTER2 |-> ECAT_MASTER2, ECAT_MASTER3 |-> ECAT_MASTER3,
     BDTYPE_ECAT_CMN |-> BDTYPE_ECAT_CMN, BDTYPE_ECAT_IO |-> BDTYPE_ECAT_IO,
     BDTYPE_ECAT_MOT |-> BDTYPE_ECAT_MOT, BDTYPE_ECAT_SEN |-> BDTYPE_ECAT_SEN,
     NID_SAFETY |-> NID_SAFETY, NID_PROT04_00_S |-> NID_PROT04_00_S,
     NID_PROT04_01_S |-> NID_PROT04_01_S, NID_PROT04_02_S |-> NID_PROT04_02_S,
     NID_MOTOR_00 |-> NID_MOTOR_00, NID_MOTOR_01 |-> NID_MOTOR_01,
     NID_SENSOR_00 |-> NID_SENSOR_00,
     MA0_SAFETY |-> MA0_SAFETY, MA0_PROT04_00_S |-> MA0_PROT04_00_S,
     MA0_PROT04_01_S |-> MA0_PROT04_01_S, MA0_PROT04_02_S |-> MA0_PROT04_02_S,
     MA0_MOTOR_00 |-> MA0_MOTOR_00, MA0_MOTOR_01 |-> MA0_MOTOR_01,
     MA0_SENSOR_00 |-> MA0_SENSOR_00,
     MA1_SAFETY |-> MA1_SAFETY, MA1_PROT04_00_S |-> MA1_PROT04_00_S,
     MA1_MOTOR_00 |-> MA1_MOTOR_00,
     MA0_BROADCAST |-> MA0_BROADCAST, MA1_BROADCAST |-> MA1_BROADCAST]

MasterNames == {"ECAT_MASTER0", "ECAT_MASTER1", "ECAT_MASTER2", "ECAT_MASTER3"}
BoardTypeNames ==
    {"BDTYPE_ECAT_CMN", "BDTYPE_ECAT_IO", "BDTYPE_ECAT_MOT", "BDTYPE_ECAT_SEN"}
BaseNames == MasterNames \cup BoardTypeNames
NidNames ==
    {"NID_SAFETY", "NID_PROT04_00_S", "NID_PROT04_01_S", "NID_PROT04_02_S",
     "NID_MOTOR_00", "NID_MOTOR_01", "NID_SENSOR_00"}
Ma0Names ==
    {"MA0_SAFETY", "MA0_PROT04_00_S", "MA0_PROT04_01_S", "MA0_PROT04_02_S",
     "MA0_MOTOR_00", "MA0_MOTOR_01", "MA0_SENSOR_00"}
Ma1Names == {"MA1_SAFETY", "MA1_PROT04_00_S", "MA1_MOTOR_00"}
BroadcastNames == {"MA0_BROADCAST", "MA1_BROADCAST"}
MacroNames == DOMAIN SampleHeader

(***************************************************************************)
(* Integer values.  An address needs all 32 bits and more, so a value is   *)
(* kept as two limbs: value = hi * 2^16 + lo, 0 <= lo < 2^16, hi signed.   *)
(***************************************************************************)
Limb == 2^16

W(h, l) == [hi |-> h, lo |-> l]
ToW(v) == W(v \div Limb, v % Limb)

\* INT_MIN <= w <= INT_MAX for the 32-bit int of the header's literals.
InIntRange(w) == w.hi >= -32768 /\ w.hi <= 32767

\* The 32-bit two's complement wrap of a value, read as an int.
ToInt32(w) == W(((w.hi + 32768) % Limb) - 32768, w.lo)

RECURSIVE OrNat(_, _)
OrNat(a, b) ==
    IF a = 0 THEN b
    ELSE IF b = 0 THEN a
    ELSE (IF a % 2 = 1 \/ b % 2 = 1 THEN 1 ELSE 0) + 2 * OrNat(a \div 2, b \div 2)

\* a | b; a negative int operand is taken by its 32-bit pattern.
BitOr(a, b) ==
    IF a.hi >= 0 /\ b.hi >= 0
    THEN W(OrNat(a.hi, b.hi), OrNat(a.lo, b.lo))
    ELSE ToInt32(W(OrNat(a.hi % Limb, b.hi % Limb), OrNat(a.lo, b.lo)))

\* a * b over the integers.
Times(a, b) ==
    LET low == a.lo * b.lo
        mid == a.hi * b.lo + a.lo * b.hi + (low \div Limb)
    IN  W(a.hi * b.hi * Limb + mid, low % Limb)

RECURSIVE Pow2(_)
Pow2(n) == IF n = 0 THEN 1 ELSE 2 * Pow2(n - 1)

\* 2^n as a value.
Pow2W(n) == IF n < 16 THEN W(0, Pow2(n)) ELSE W(Pow2(n - 16), 0)

\* a << n over the integers (n < 32 in every expression of the header).
ShiftLeft(a, n) == Times(a, Pow2W(n.lo))

(***************************************************************************)
(* Macro expansion: every identifier that names a macro of the header is   *)
(* replaced, textually, by that macro's replacement list, rescanned.       *)
(***************************************************************************)
\* The replacement list of macro `name` in the header whose base constants
\* are defined as in b, the other lines being those of the file.
Body(b, name) == IF name \in DOMAIN b THEN b[name] ELSE SampleHeader[name]

RECURSIVE Expand(_, _)
Expand(h, toks) ==
    IF toks = <<>> THEN <<>>
    ELSE LET t == Head(toks)
         IN  (IF t.k = "id" /\ t.s \in MacroNames
              THEN Expand(h, Body(h, t.s))
              ELSE <<t>>) \o Expand(h, Tail(toks))

(***************************************************************************)
(* The C expression grammar the header uses: * binds tighter than <<,      *)
(* << binds tighter than |, all three associate to the left.               *)
(***************************************************************************)
IsBinary(t) == t.k = "p" /\ t.s \in {"*", "<<", "|"}

\* Faulty variant: | taken to bind tighter than <<.
PrecOrAboveShift(op) == IF op = "*" THEN 3 ELSE IF op = "|" THEN 2 ELSE 1

Prec(op) == IF op = "*" THEN 3 ELSE IF op = "<<" THEN 2 ELSE 1

RECURSIVE ParseExpr(_, _, _)
RECURSIVE Climb(_, _, _)

\* A primary expression at toks[pos]: a literal or a parenthesised expression.
ParsePrimary(toks, pos) ==
    IF toks[pos].k = "num"
    THEN [ast |-> <<"num", toks[pos].v>>, pos |-> pos + 1]
    ELSE LET r == ParseExpr(toks, pos + 1, 1)
         IN  [ast |-> r.ast, pos |-> r.pos + 1]

Climb(toks, lhs, minPrec) ==
    IF lhs.pos <= Len(toks) /\ IsBinary(toks[lhs.pos])
                            /\ Prec(toks[lhs.pos].s) >= minPrec
    THEN LET op == toks[lhs.pos].s
             rhs == ParseExpr(toks, lhs.pos + 1, Prec(op) + 1)
         IN  Climb(toks, [ast |-> <<op, lhs.ast, rhs.ast>>, pos |-> rhs.pos],
                   minPrec)
    ELSE lhs

ParseExpr(toks, pos, minPrec) == Climb(toks, ParsePrimary(toks, pos), minPrec)

Parse(toks) == ParseExpr(toks, 1, 1).ast

(***************************************************************************)
(* Evaluation.  The literals are of type int, so every operation is an int *)
(* operation.  A result that int cannot represent is undefined behaviour;  *)
(* the builds produce one of two values: the two's complement wrap (the    *)
(* compiler's constant folding on a 32-bit int) or the exact value (the    *)
(* preprocessor's #if arithmetic, which is done in intmax_t).              *)
(***************************************************************************)
Modes == {"wrap", "wide"}

Fit(w, mode) == IF mode = "wrap" THEN ToInt32(w) ELSE w

Apply(op, l, r, mode) ==
    IF op = "|" THEN BitOr(l, r)
    ELSE IF op = "<<" THEN Fit(ShiftLeft(l, r), mode)
    ELSE Fit(Times(l, r), mode)

RECURSIVE Eval(_, _)
Eval(ast, mode) ==
    IF ast[1] = "num" THEN ToW(ast[2])
    ELSE Apply(ast[1], Eval(ast[2], mode), Eval(ast[3], mode), mode)

\* The exact values of an expression and of every sub-expression of it.
RECURSIVE Intermediates(_)
Intermediates(ast) ==
    IF ast[1] = "num" THEN {Eval(ast, "wide")}
    ELSE {Eval(ast, "wide")} \cup Intermediates(ast[2]) \cup Intermediates(ast[3])

\* Some operation of the expression overflows int.
Overflows(ast) == \E w \in Intermediates(ast) : ~InIntRange(w)

\* The values a build can give the expression.
Outcomes(ast) ==
    IF Overflows(ast) THEN {Eval(ast, mode) : mode \in Modes}
    ELSE {Eval(ast, "wide")}

\* The values a use of macro `name` can have under header h.
MacroOutcomes(h, name) == Outcomes(Parse(Expand(h, <<I(name)>>)))

(***************************************************************************)
(* The header: edits of the base constants and uses of the macros.         *)
(***************************************************************************)
MaxEdits == 2

MasterValues == 0 .. 3
BoardTypeValues == 1 .. 4

NotUsed == [name |-> "none", value |-> W(0, 0), overflow |-> FALSE]
Idle == "idle"

SampleBase == [n \in BaseNames |-> SampleHeader[n]]

Edited(b) == {n \in BaseNames : b[n] # SampleHeader[n]}

\* The integrator rewrites one base constant; the program must be rebuilt.
Edit(name, v) ==
    /\ pc = Idle
    /\ base' = [base EXCEPT ![name] = <<N(v)>>]
    /\ base' # base
    /\ Cardinality(Edited(base')) <= MaxEdits
    /\ used' = NotUsed
    /\ UNCHANGED <<master, btype, inst, nid, addr, pc>>

EditMaster == \E name \in MasterNames, v \in MasterValues : Edit(name, v)

EditBoardType == \E name \in BoardTypeNames, v \in BoardTypeValues : Edit(name, v)

\* The including program is built against the header: a use of a macro is
\* expanded and evaluated, and the value stays baked in until the next edit.
Use ==
    /\ pc = Idle
    /\ used = NotUsed
    /\ \E name \in MacroNames :
          LET ast == Parse(Expand(base, <<I(name)>>))
          IN  \E v \in Outcomes(ast) :
                 used' = [name |-> name, value |-> v, overflow |-> Overflows(ast)]
    /\ UNCHANGED <<base, master, btype, inst, nid, addr, pc>>

HeaderInit ==
    /\ base = SampleBase
    /\ used = NotUsed
    /\ master = 0 /\ btype = 0 /\ inst = 0
    /\ nid = W(0, 0) /\ addr = W(0, 0)
    /\ pc = Idle

HeaderNext == EditMaster \/ EditBoardType \/ Use

Spec == HeaderInit /\ [][HeaderNext]_vars

(***************************************************************************)
(* Deriving a board the way the header does: a node ID in the form of the  *)
(* NID_x lines, a board address in the form of the MAk_x lines.            *)
(***************************************************************************)
MaxMaster == 7
MaxBoardType == 5
MaxInstance == 260

MasterInputs == 0 .. MaxMaster
BoardTypeInputs == (0 .. MaxBoardType) \cup {\H3F, \H40, \H7F, \H80, \HFF}
InstanceInputs == (0 .. MaxInstance) \cup {\H1FF, \H204, \H3FF}

\* Faulty variant: the board type shifted by 7 instead of 8.
NodeIdFormShift7(board_type, instance) ==
    <<P("("), N(instance), P("|"), N(board_type), P("<<"), N(7), P(")")>>

\* Faulty variant: the board type shifted by 16 instead of 8.
NodeIdFormShift16(board_type, instance) ==
    <<P("("), N(instance), P("|"), N(board_type), P("<<"), N(16), P(")")>>

\* #define NID_x (instance | board_type << 8)
NodeIdForm(board_type, instance) ==
    <<P("("), N(instance), P("|"), N(board_type), P("<<"), N(8), P(")")>>

\* Faulty variant: the node ID scaled by 0x100000 instead of 0x10000.
AddressFormExtraZero(m, nidForm) ==
    <<P("("), P("("), N(m), P("<<"), N(30), P(")"), P("|"), P("(")>>
        \o nidForm \o <<P("*"), N(\H100000), P(")"), P(")")>>

\* #define MAk_x ((master << 30) | (NID_x * 0x10000))
AddressForm(m, nidForm) ==
    <<P("("), P("("), N(m), P("<<"), N(30), P(")"), P("|"), P("(")>>
        \o nidForm \o <<P("*"), N(\H10000), P(")"), P(")")>>

NodeIdOutcomes(board_type, instance) ==
    Outcomes(Parse(NodeIdForm(board_type, instance)))

AddressOutcomes(m, board_type, instance) ==
    Outcomes(Parse(AddressForm(m, NodeIdForm(board_type, instance))))

DefineNodeId ==
    /\ pc = "start"
    /\ \E v \in NodeIdOutcomes(btype, inst) : nid' = v
    /\ pc' = "nid"
    /\ UNCHANGED <<base, used, master, btype, inst, addr>>

DefineAddress ==
    /\ pc = "nid"
    /\ \E v \in AddressOutcomes(master, btype, inst) : addr' = v
    /\ pc' = "done"
    /\ UNCHANGED <<base, used, master, btype, inst, nid>>

DeriveInit ==
    /\ base = SampleBase
    /\ used = NotUsed
    /\ master \in MasterInputs
    /\ btype \in BoardTypeInputs
    /\ inst \in InstanceInputs
    /\ nid = W(0, 0) /\ addr = W(0, 0)
    /\ pc = "start"

DeriveNext == DefineNodeId \/ DefineAddress

DeriveSpec == DeriveInit /\ [][DeriveNext]_vars

(***************************************************************************)
(* The board map of the sample: which instance and board type each NID_x   *)
(* line names, which master and node each MAk_x line names.                *)
(***************************************************************************)
SampleNid ==
    [NID_SAFETY |-> [instance |-> \H7F, board_type |-> "BDTYPE_ECAT_CMN"],
     NID_PROT04_00_S |-> [instance |-> \H04, board_type |-> "BDTYPE_ECAT_IO"],
     NID_PROT04_01_S |-> [instance |-> \H05, board_type |-> "BDTYPE_ECAT_IO"],
     NID_PROT04_02_S |-> [instance |-> \H06, board_type |-> "BDTYPE_ECAT_IO"],
     NID_MOTOR_00 |-> [instance |-> \H10, board_type |-> "BDTYPE_ECAT_MOT"],
     NID_MOTOR_01 |-> [instance |-> \H11, board_type |-> "BDTYPE_ECAT_MOT"],
     NID_SENSOR_00 |-> [instance |-> \H20, board_type |-> "BDTYPE_ECAT_SEN"]]

SampleMa ==
    [MA0_SAFETY |-> [master |-> "ECAT_MASTER0", node |-> "NID_SAFETY"],
     MA0_PROT04_00_S |-> [master |-> "ECAT_MASTER0", node |-> "NID_PROT04_00_S"],
     MA0_PROT04_01_S |-> [master |-> "ECAT_MASTER0", node |-> "NID_PROT04_01_S"],
     MA0_PROT04_02_S |-> [master |-> "ECAT_MASTER0", node |-> "NID_PROT04_02_S"],
     MA0_MOTOR_00 |-> [master |-> "ECAT_MASTER0", node |-> "NID_MOTOR_00"],
     MA0_MOTOR_01 |-> [master |-> "ECAT_MASTER0", node |-> "NID_MOTOR_01"],
     MA0_SENSOR_00 |-> [master |-> "ECAT_MASTER0", node |-> "NID_SENSOR_00"],
     MA1_SAFETY |-> [master |-> "ECAT_MASTER1", node |-> "NID_SAFETY"],
     MA1_PROT04_00_S |-> [master |-> "ECAT_MASTER1", node |-> "NID_PROT04_00_S"],
     MA1_MOTOR_00 |-> [master |-> "ECAT_MASTER1", node |-> "NID_MOTOR_00"]]

MaNames == Ma0Names \cup Ma1Names

\* The number a base constant is defined as in b.
BaseValue(b, name) == b[name][1].v

(***************************************************************************)
(* The derivation formulas of the specification, over the integers:        *)
(*   node_id(board_type, instance) = instance | (board_type << 8)          *)
(*   address(master, node_id)      = (master << 30) | (node_id * 0x10000)  *)
(*   broadcast(master)             = master << 30                          *)
(* for operands below 2^16 (node_id) and 2^17 (master).                    *)
(***************************************************************************)
RefNodeId(board_type, instance) == ToW(OrNat(instance, board_type * 2^8))
RefAddress(m, n) == W(OrNat(m * 2^14, n.lo), 0)
RefBroadcast(m) == W(m * 2^14, 0)

\* The formula a derived constant of the header stands for, on base values b.
RefMacro(b, name) ==
    IF name \in NidNames
    THEN RefNodeId(BaseValue(b, SampleNid[name].board_type), SampleNid[name].instance)
    ELSE IF name \in MaNames
    THEN RefAddress(BaseValue(b, SampleMa[name].master),
                    RefNodeId(BaseValue(b, SampleNid[SampleMa[name].node].board_type),
                              SampleNid[SampleMa[name].node].instance))
    ELSE IF name = "MA0_BROADCAST" THEN RefBroadcast(BaseValue(b, "ECAT_MASTER0"))
    ELSE RefBroadcast(BaseValue(b, "ECAT_MASTER1"))

\* The 32-bit pattern of a value.
Pattern32(w) == W(w.hi % Limb, w.lo)

(***************************************************************************)
(* C1.  In the header as written every derived constant has the value of   *)
(* its derivation formula under C precedence (NID_x = instance |           *)
(* (board_type << 8), MAk_x = (k << 30) | (NID_x * 0x10000)); in           *)
(* particular NID_MOTOR_00 = 0x0310, MA0_MOTOR_00 = 0x03100000,            *)
(* NID_PROT04_00_S = 0x0204, MA0_PROT04_00_S = 0x02040000,                 *)
(* NID_SAFETY = 0x017F and MA1_MOTOR_00 = 0x43100000.                      *)
(***************************************************************************)
C1_Literals ==
    [NID_MOTOR_00 |-> W(0, \H0310), MA0_MOTOR_00 |-> W(\H0310, \H0000),
     NID_PROT04_00_S |-> W(0, \H0204), MA0_PROT04_00_S |-> W(\H0204, \H0000),
     NID_SAFETY |-> W(0, \H017F), MA1_MOTOR_00 |-> W(\H4310, \H0000)]

C1_DerivedEqualFormula ==
    (base = SampleBase /\ used.name \in NidNames \cup MaNames) =>
        /\ used.value = RefMacro(base, used.name)
        /\ used.name \in DOMAIN C1_Literals => used.value = C1_Literals[used.name]

C1_Witness ==
    /\ base = SampleBase
    /\ used = [name |-> "MA1_MOTOR_00", value |-> W(\H4310, 0), overflow |-> FALSE]

(***************************************************************************)
(* C2.  The broadcast constants of the header agree with broadcast(master) *)
(* = master << 30: MA0_BROADCAST = ECAT_MASTER0 << 30 = 0x00000000 and     *)
(* MA1_BROADCAST = ECAT_MASTER1 << 30 = 0x40000000.                        *)
(***************************************************************************)
C2_BroadcastAgrees ==
    (base = SampleBase /\ used.name \in BroadcastNames) =>
        /\ used.value = RefMacro(base, used.name)
        /\ used.name = "MA0_BROADCAST" => used.value = W(\H0000, \H0000)
        /\ used.name = "MA1_BROADCAST" => used.value = W(\H4000, \H0000)

C2_Witness ==
    /\ base = SampleBase
    /\ used = [name |-> "MA1_BROADCAST", value |-> W(\H4000, 0), overflow |-> FALSE]

(***************************************************************************)
(* C3.  After any edit of the base constants every derived constant (every *)
(* NID_x, every MAk_x and both broadcast constants) has the value of its   *)
(* derivation formula on the edited base values.                           *)
(***************************************************************************)
C3_EditsPropagate ==
    used.name \in NidNames \cup MaNames \cup BroadcastNames =>
        Pattern32(used.value) = Pattern32(RefMacro(base, used.name))

\* The part of C3 the header does satisfy: the NID_x and MAk_x lines.
EditsPropagateToBoards ==
    used.name \in NidNames \cup MaNames =>
        Pattern32(used.value) = Pattern32(RefMacro(base, used.name))

(***************************************************************************)
(* C10.  In the header as written no macro overflows a 32-bit int: every   *)
(* intermediate and final value of every macro lies in [0, 2^31 - 1]; the  *)
(* same MAk_x form with master value 2 or 3 has the intermediate           *)
(* master << 30 >= 2^31, which int cannot represent.                       *)
(***************************************************************************)
C10_NoIntOverflowAsWritten ==
    used.name # "none" =>
        LET ast == Parse(Expand(base, <<I(used.name)>>))
            m == BaseValue(base, SampleMa[used.name].master)
        IN  /\ base = SampleBase =>
                  /\ ~used.overflow
                  /\ \A w \in Intermediates(ast) \cup {used.value} :
                        w.hi >= 0 /\ w.hi <= 32767 /\ w.lo \in 0 .. (Limb - 1)
            /\ (used.name \in MaNames /\ m \in {2, 3}) =>
                  /\ used.overflow
                  /\ RefBroadcast(m) \in Intermediates(ast)
                  /\ RefBroadcast(m).hi >= 32768

C10_Witness ==
    /\ base = SampleBase
    /\ used = [name |-> "MA1_SAFETY", value |-> W(\H417F, 0), overflow |-> FALSE]

(***************************************************************************)
(* In-range inputs of the derivation: master 0..3, board type 1..4,        *)
(* instance 0..255.                                                        *)
(***************************************************************************)
InstanceValues == 0 .. (2^8 - 1)

InRange == master \in MasterValues /\ btype \in BoardTypeValues /\ inst \in InstanceValues

InRangeKeys == MasterValues \X BoardTypeValues \X InstanceValues

\* The in-range derivations with the values each can have.
NidPairs ==
    UNION {{<<k, v>> : v \in NodeIdOutcomes(k[1], k[2])} :
              k \in BoardTypeValues \X InstanceValues}
AddrPairs ==
    UNION {{<<k, v>> : v \in AddressOutcomes(k[1], k[2], k[3])} : k \in InRangeKeys}

\* The values of a macro of the header as written.
SampleValues(n) == MacroOutcomes(SampleBase, n)

(***************************************************************************)
(* C4.  Round trip: for in-range inputs the address a satisfies            *)
(* a >> 30 = master, (a mod 2^30) / 0x10000 = node_id, a mod 0x10000 = 0,  *)
(* and node_id mod 256 = instance, node_id >> 8 = board_type.              *)
(***************************************************************************)
C4_RoundTrip ==
    (pc = "done" /\ InRange) =>
        /\ addr.hi \div 2^14 = master
        /\ addr.hi % 2^14 = nid.lo /\ nid.hi = 0
        /\ addr.lo = 0
        /\ nid.lo % 2^8 = inst
        /\ nid.lo \div 2^8 = btype

\* C4 on the masters whose shift fits an int.
RoundTripBelowSignBit ==
    (pc = "done" /\ InRange /\ master \in {0, 1}) =>
        /\ addr.hi \div 2^14 = master
        /\ addr.hi % 2^14 = nid.lo /\ nid.hi = 0
        /\ addr.lo = 0
        /\ nid.lo % 2^8 = inst
        /\ nid.lo \div 2^8 = btype

(***************************************************************************)
(* C5.  For in-range inputs the address is a 32-bit unsigned integer, in   *)
(* [0, 2^32 - 1], and the master field and the scaled node ID occupy       *)
(* disjoint bits: their OR equals their sum.                               *)
(***************************************************************************)
C5_Unsigned32 ==
    (pc = "done" /\ InRange) =>
        /\ addr.hi >= 0 /\ addr.hi <= Limb - 1 /\ addr.lo \in 0 .. (Limb - 1)
        /\ addr = W(master * 2^14 + nid.lo, 0)

\* C5 on the masters whose shift fits an int.
Unsigned32BelowSignBit ==
    (pc = "done" /\ InRange /\ master \in {0, 1}) =>
        /\ addr.hi >= 0 /\ addr.hi <= Limb - 1 /\ addr.lo \in 0 .. (Limb - 1)
        /\ addr = W(master * 2^14 + nid.lo, 0)

(***************************************************************************)
(* C6.  Distinctness: the (master, node_id) pairs of the sample are        *)
(* pairwise distinct, seven on master 0 and three on master 1; distinct    *)
(* in-range (master, node_id) pairs have distinct addresses, so the ten    *)
(* MAk_x addresses of the header are pairwise distinct; two addresses on   *)
(* one master coincide only if their node IDs coincide.                    *)
(***************************************************************************)
SamplePair(name) == <<SampleValues(SampleMa[name].master), SampleValues(SampleMa[name].node)>>

SamplePairsDistinct ==
    /\ \A a, b \in MaNames : a # b => SamplePair(a) # SamplePair(b)
    /\ Cardinality({n \in MaNames : SamplePair(n)[1] = {W(0, 0)}}) = 7
    /\ Cardinality({n \in MaNames : SamplePair(n)[1] = {W(0, 1)}}) = 3

SampleAddressesDistinct ==
    \A a, b \in MaNames : a # b => SampleValues(a) \cap SampleValues(b) = {}

\* Over all in-range derivations: no value, and no 32-bit pattern, is shared
\* by two of them.
DerivationsDistinct ==
    /\ Cardinality({p[2] : p \in NidPairs}) = Cardinality(NidPairs)
    /\ Cardinality({p[2] : p \in AddrPairs}) = Cardinality(AddrPairs)
    /\ Cardinality({Pattern32(p[2]) : p \in AddrPairs}) = Cardinality(InRangeKeys)

C6_Distinct ==
    /\ SamplePairsDistinct
    /\ SampleAddressesDistinct
    /\ DerivationsDistinct
    /\ (pc # "start" /\ InRange) => <<<<btype, inst>>, nid>> \in NidPairs
    /\ (pc = "done" /\ InRange) =>
          /\ <<<<master, btype, inst>>, addr>> \in AddrPairs
          /\ \A p \in AddrPairs :
                (p[1][1] = master /\ p[2] = addr) =>
                    <<<<p[1][2], p[1][3]>>, nid>> \in NidPairs

C6_Witness ==
    /\ pc = "done"
    /\ master = 1 /\ btype = 3 /\ inst = \H10
    /\ nid = W(0, \H0310)
    /\ addr = W(\H4310, 0)

(***************************************************************************)
(* C7.  An instance wider than one byte is not rejected and corrupts the   *)
(* board-type field: the node ID is still produced, its bits 8 and above   *)
(* are board_type | (instance >> 8), and it is the node ID of the pair     *)
(* (node_id >> 8, node_id mod 256), whose address it shares; e.g.          *)
(* node_id(0x02, 0x104) = node_id(0x03, 0x04) = 0x0304.                    *)
(***************************************************************************)
C7_InstanceOverflow ==
    (btype \in BoardTypeValues /\ inst >= 2^8) =>
        /\ NodeIdOutcomes(btype, inst) # {}
        /\ AddressOutcomes(master, btype, inst) # {}
        /\ pc # "start" =>
              /\ nid.hi = 0
              /\ nid.lo % 2^8 = inst % 2^8
              /\ nid.lo \div 2^8 = OrNat(btype, inst \div 2^8)
              /\ nid \in NodeIdOutcomes(nid.lo \div 2^8, nid.lo % 2^8)
              /\ (btype = \H02 /\ inst = \H104) =>
                    nid = W(0, \H0304) /\ NodeIdOutcomes(\H03, \H04) = {nid}
        /\ pc = "done" =>
              addr \in AddressOutcomes(master, nid.lo \div 2^8, nid.lo % 2^8)

C7_Witness ==
    /\ pc = "done"
    /\ master = 0 /\ btype = \H02 /\ inst = \H104
    /\ nid = W(0, \H0304)
    /\ addr = W(\H0304, 0)
    /\ addr \in AddressOutcomes(0, \H03, \H04)

(***************************************************************************)
(* C8.  For malformed input (master above 3, board type 0 or above 4) the  *)
(* address derivation gives exactly one value, and that value is a 32-bit  *)
(* unsigned integer.                                                       *)
(***************************************************************************)
C8_MalformedWellDefined ==
    (pc = "done" /\ (master \notin MasterValues \/ btype \notin BoardTypeValues)) =>
        /\ AddressOutcomes(master, btype, inst) = {addr}
        /\ addr.hi >= 0 /\ addr.hi <= Limb - 1 /\ addr.lo \in 0 .. (Limb - 1)

(***************************************************************************)
(* C9.  The broadcast address is reserved: the address of an in-range      *)
(* board has a non-zero node field and differs from broadcast(m) for every *)
(* m in 0..3; none of the ten MAk_x addresses of the header equals         *)
(* MA0_BROADCAST or MA1_BROADCAST.                                         *)
(***************************************************************************)
SampleBoardsNotBroadcast ==
    \A a \in MaNames, b \in BroadcastNames : SampleValues(a) \cap SampleValues(b) = {}

C9_BroadcastReserved ==
    /\ SampleBoardsNotBroadcast
    /\ (pc = "done" /\ InRange) =>
          /\ addr.hi % 2^14 # 0
          /\ \A m \in MasterValues :
                /\ addr # RefBroadcast(m)
                /\ Pattern32(addr) # Pattern32(RefBroadcast(m))

C9_Witness ==
    /\ pc = "done"
    /\ master = 3 /\ btype = 1 /\ inst = 0
    /\ addr.hi % 2^14 = \H0100
====
